---- MODULE Spec2Model ----
(***************************************************************************)
(* goform.Unmarshal: binding of an http request (JSON body, form/query     *)
(* values, multipart file parts) onto the fields of a struct, field by     *)
(* field, as directed by the fields' `form` tags.                          *)
(*                                                                         *)
(* Strings that the code takes apart (struct tags, form keys) are          *)
(* sequences of lexemes: "a", "-", ",", "base64", "required", "omitempty". *)
(***************************************************************************)
EXTENDS Integers, Sequences, FiniteSets, TLC

VARIABLES
    fields,     \* the declared fields of *v, in declaration order
    req,        \* the request r: Content-Type, body, Form, MultipartForm
    vIsPtr,     \* whether v is a pointer
    dst,        \* the value of every field of *v
    pre,        \* dst as it was when the per-field loop started
    heap,       \* number of objects allocated so far (reflect.New, json)
    pc,         \* "start", "loop", "file", "done"
    i,          \* the loop index of Unmarshal (1-based), 0 before the loop
    open,       \* the multipart file streams that are open
    err         \* the error Unmarshal returned (NoErr: nil)

vars == <<fields, req, vIsPtr, dst, pre, heap, pc, i, open, err>>

----------------------------------------------------------------------------
(* Bounds *)

\* number of fields of the destination struct
NumFields == 2

\* largest number of values under one form key, and of file parts under one
\* file key
MaxValues == 2

----------------------------------------------------------------------------
(* tag.go *)

\* index of the first "," of s, 0 when there is none
RECURSIVE IndexOfComma(_, _)
IndexOfComma(s, k) ==
    IF k > Len(s) THEN 0
    ELSE IF s[k] = "," THEN k
    ELSE IndexOfComma(s, k + 1)

\* strings.Split(s, ","): never empty, Split("") = [""]
RECURSIVE Split(_)
Split(s) ==
    LET p == IndexOfComma(s, 1) IN
    IF p = 0 THEN <<s>>
    ELSE <<SubSeq(s, 1, p - 1)>> \o Split(SubSeq(s, p + 1, Len(s)))

flagsZero == [base64 |-> FALSE, required |-> FALSE]

parseTag(tag) ==
    LET split == Split(tag) IN
    IF Len(split) > 0
    THEN [key   |-> split[1],
          flags |-> [base64   |-> \E k \in 2..Len(split) : split[k] = <<"base64">>,
                     required |-> \E k \in 2..Len(split) : split[k] = <<"required">>]]
    ELSE [key |-> <<>>, flags |-> flagsZero]

----------------------------------------------------------------------------
(* Values *)

\* A field's value: addr is the pointer held by a pointer field (0: nil, and
\* always 0 for a field that is no pointer); s and n are the data (of the
\* pointee, for a pointer field): s the characters of a string, the bytes of
\* a byte slice, the pixels of an image or the instant of a time; n a number
\* (a bool is 0 or 1).
Data(s, n) == [s |-> s, n |-> n]

zeroData == Data(<<>>, 0)

Val(addr, d) == [addr |-> addr, s |-> d.s, n |-> d.n]

zeroVal == Val(0, zeroData)

\* what the JSON body of the model's requests holds for every field
jsonData == Data(<<"r", "i", "c", "k">>, 39)

NoErr == [msg |-> "", key |-> <<>>]

Error(msg) == [msg |-> msg, key |-> <<>>]

\* fmt.Errorf("goform: missing required field [%s]", tag)
MissingRequired(tag) == [msg |-> "goform: missing required field", key |-> tag]

----------------------------------------------------------------------------
(* reflect: the kind of a field's type, with the pointer unwrapped *)

Types == {"string", "bool", "int", "int8", "int16", "int32", "int64",
          "uint", "uint8", "uint16", "uint32", "uint64",
          "float32", "float64", "[]byte", "[]int", "time.Time", "struct",
          "image.Image", "map"}

KindOf(type) ==
    CASE type = "string" -> "String"
      [] type = "bool" -> "Bool"
      [] type = "int" -> "Int"
      [] type = "int8" -> "Int8"
      [] type = "int16" -> "Int16"
      [] type = "int32" -> "Int32"
      [] type = "int64" -> "Int64"
      [] type = "uint" -> "Uint"
      [] type = "uint8" -> "Uint8"
      [] type = "uint16" -> "Uint16"
      [] type = "uint32" -> "Uint32"
      [] type = "uint64" -> "Uint64"
      [] type = "float32" -> "Float32"
      [] type = "float64" -> "Float64"
      [] type \in {"[]byte", "[]int"} -> "Slice"
      [] type \in {"time.Time", "struct"} -> "Struct"
      [] type = "image.Image" -> "Interface"
      [] OTHER -> "Map"

----------------------------------------------------------------------------
(* strconv, time: what the scalar decoders call *)

Ok(d) == [d |-> d, err |-> NoErr]

Fail(msg) == [d |-> zeroData, err |-> Error(msg)]

ParseBool(value) ==
    IF value \in {<<"1">>, <<"t">>, <<"T">>, <<"t", "r", "u", "e">>}
    THEN Ok(Data(<<>>, 1))
    ELSE IF value \in {<<"0">>, <<"f">>, <<"F">>, <<"f", "a", "l", "s", "e">>}
    THEN Ok(Data(<<>>, 0))
    ELSE Fail("strconv.ParseBool: invalid syntax")

DigitVal(c) ==
    CASE c = "0" -> 0 [] c = "1" -> 1 [] c = "2" -> 2 [] c = "3" -> 3
      [] c = "4" -> 4 [] c = "5" -> 5 [] c = "6" -> 6 [] c = "7" -> 7
      [] c = "8" -> 8 [] c = "9" -> 9 [] c = "a" -> 10 [] c = "b" -> 11
      [] c = "c" -> 12 [] c = "d" -> 13 [] c = "e" -> 14 [] c = "f" -> 15
      [] c = "x" -> 33
      [] OTHER -> 99

\* the number that the digits ds spell in base b
RECURSIVE Digits(_, _)
Digits(ds, b) ==
    IF ds = <<>> THEN 0
    ELSE Digits(SubSeq(ds, 1, Len(ds) - 1), b) * b + DigitVal(ds[Len(ds)])

\* strconv.ParseUint(value, b, bitSize); bitSize 0 is the 64 bits of int.
\* The range check is made for 8 and 16 bits; a 32 or 64 bit range is wider
\* than any literal of the model.
ParseUint(value, b, bitSize) ==
    IF b < 2 \/ b > 36
    THEN Fail("strconv.ParseUint: invalid base")
    ELSE IF value = <<>> \/ \E k \in 1..Len(value) : DigitVal(value[k]) >= b
    THEN Fail("strconv.ParseUint: invalid syntax")
    ELSE IF bitSize \in {8, 16} /\ Digits(value, b) >= 2 ^ bitSize
    THEN Fail("strconv.ParseUint: value out of range")
    ELSE Ok(Data(<<>>, Digits(value, b)))

\* strconv.ParseInt(value, b, bitSize)
ParseInt(value, b, bitSize) ==
    LET neg == value # <<>> /\ value[1] = "-"
        signed == value # <<>> /\ value[1] \in {"-", "+"}
        u == ParseUint(IF signed THEN Tail(value) ELSE value, b, 0)
        n == IF neg THEN 0 - u.d.n ELSE u.d.n
    IN
    IF u.err # NoErr THEN Fail("strconv.ParseInt: invalid syntax")
    ELSE IF bitSize \in {8, 16} /\ (n >= 2 ^ (bitSize - 1) \/ n < 0 - 2 ^ (bitSize - 1))
    THEN Fail("strconv.ParseInt: value out of range")
    ELSE Ok(Data(<<>>, n))

\* strconv.ParseFloat(value, bitSize), on the decimal integers, which are
\* the numerals of the model
ParseFloat(value, bitSize) ==
    LET r == ParseInt(value, 10, 0) IN
    IF r.err # NoErr THEN Fail("strconv.ParseFloat: invalid syntax") ELSE r

\* a time of day in the layout time.RFC3339, one lexeme
RFC3339Stamp == "2006-01-02T15:04:05Z"

\* time.Parse / time.ParseInLocation(format, value): the stamp is the one
\* value in the layout time.RFC3339; no value of the model is in another layout
ParseTime(format, value) ==
    IF format = "RFC3339" /\ value = <<RFC3339Stamp>>
    THEN Ok(Data(value, 0))
    ELSE Fail("parsing time: cannot parse")

\* time.LoadLocation(tz)
LoadLocation(tz) ==
    IF tz \in {"UTC", "Local", "America/New_York"} THEN NoErr
    ELSE Error("unknown time zone")

----------------------------------------------------------------------------
(* tag.go: base *)

\* base(tag): the `base` struct tag, 10 when there is none (f.base = <<>>)
base(f) ==
    IF f.base = <<>> THEN [val |-> 10, err |-> NoErr]
    ELSE LET r == ParseInt(f.base, 10, 32) IN
         IF r.err # NoErr THEN [val |-> r.d.n, err |-> Error("invalid int base")]
         ELSE [val |-> r.d.n, err |-> NoErr]

----------------------------------------------------------------------------
(* unmarshal.go: the scalar decoders.  Each gives the data written into    *)
(* valf and the error returned; on an error nothing is written.            *)

decodeBool(valf, value) ==
    LET r == ParseBool(value) IN
    IF r.err # NoErr THEN [d |-> valf, err |-> r.err] ELSE Ok(r.d)

decodeFloat(valf, bitSize, value) ==
    LET r == ParseFloat(value, bitSize) IN
    IF r.err # NoErr THEN [d |-> valf, err |-> r.err] ELSE Ok(r.d)

decodeInt(valf, f, bitSize, value) ==
    LET b == base(f) IN
    IF b.err # NoErr THEN [d |-> valf, err |-> b.err]
    ELSE LET r == ParseInt(value, b.val, bitSize) IN
         IF r.err # NoErr THEN [d |-> valf, err |-> r.err] ELSE Ok(r.d)

decodeUint(valf, f, bitSize, value) ==
    LET b == base(f) IN
    IF b.err # NoErr THEN [d |-> valf, err |-> b.err]
    ELSE LET r == ParseUint(value, b.val, bitSize) IN
         IF r.err # NoErr THEN [d |-> valf, err |-> r.err] ELSE Ok(r.d)

decodeStruct(valf, f, formValue) ==
    IF f.type = "time.Time"
    THEN LET format == IF f.format = "" THEN "RFC3339" ELSE f.format
             loc == IF f.tz = "" THEN NoErr ELSE LoadLocation(f.tz)
             r == ParseTime(format, formValue)
         IN
         IF loc # NoErr THEN [d |-> valf, err |-> loc]
         ELSE IF r.err # NoErr THEN [d |-> valf, err |-> r.err]
         ELSE Ok(r.d)
    ELSE [d |-> valf, err |-> Error("goform: invalid destination type")]

\* the bitSize that decodeFormValue passes for an integer or float kind
\* (0: the width of int and uint)
BitSize(kind) ==
    CASE kind \in {"Int", "Uint"} -> 0
      [] kind \in {"Int8", "Uint8"} -> 8
      [] kind \in {"Int16", "Uint16"} -> 16
      [] kind \in {"Int32", "Uint32", "Float32"} -> 32
      [] OTHER -> 64

\* the switch on kind; the arms of the integer kinds, which differ in the
\* bitSize alone, are written as one arm
decodeFormValue(valf, kind, f, formValue) ==
    CASE kind = "Slice" ->
            IF f.type = "[]byte" THEN Ok(Data(formValue, 0)) ELSE Ok(valf)
      [] kind = "String" -> Ok(Data(formValue, 0))
      [] kind = "Bool" -> decodeBool(valf, formValue)
      [] kind \in {"Int", "Int8", "Int16", "Int32", "Int64"} ->
            decodeInt(valf, f, BitSize(kind), formValue)
      [] kind \in {"Uint", "Uint8", "Uint16", "Uint32", "Uint64"} ->
            decodeUint(valf, f, BitSize(kind), formValue)
      [] kind \in {"Float32", "Float64"} -> decodeFloat(valf, BitSize(kind), formValue)
      [] kind = "Struct" -> decodeStruct(valf, f, formValue)
      [] OTHER -> [d |-> valf, err |-> Error("goform: invalid destination type")]

----------------------------------------------------------------------------
(* encoding/base64, image: what the multipart decoder reads through.       *)
(* The content of a file part is a sequence of lexemes: <<"PNG">> is an    *)
(* encoded image, and <<"b64">> \o c is the base64 text of the content c.  *)

\* base64.NewDecoder(base64.StdEncoding, rdr), read to the end
Base64Decode(content) ==
    IF content = <<>> THEN [bytes |-> <<>>, err |-> NoErr]
    ELSE IF content[1] = "b64" THEN [bytes |-> Tail(content), err |-> NoErr]
    ELSE [bytes |-> <<>>, err |-> Error("illegal base64 data")]

\* image.Decode(rdr)
ImageDecode(bytes) ==
    IF bytes = <<"PNG">> THEN Ok(Data(<<"pixels">>, 0))
    ELSE Fail("image: unknown format")

----------------------------------------------------------------------------
(* unmarshal.go: decodeMultipart, decodeMultipartFile *)

\* m[k] of a Go map: the zero value (no values, no parts) for a missing key
Lookup(m, k) == IF k \in DOMAIN m THEN m[k] ELSE <<>>

\* decodeMultipart with the check of `required` left out where the request
\* has no multipart form
decodeMultipartNoCheck(r, tag, tagOptions) ==
    IF r.multipart
    THEN LET headers == Lookup(r.File, tag) IN
         IF Len(headers) = 0
         THEN [hdr |-> <<>>,
               err |-> IF tagOptions.required THEN MissingRequired(tag) ELSE NoErr]
         ELSE [hdr |-> <<headers[1]>>, err |-> NoErr]
    ELSE [hdr |-> <<>>, err |-> NoErr]

\* decodeMultipart up to the call of decodeMultipartFile: the error it
\* returns at once, or the file header it goes on to decode (hdr # <<>>),
\* or neither (nothing to bind)
decodeMultipart(r, tag, tagOptions) ==
    IF r.multipart
    THEN LET headers == Lookup(r.File, tag) IN
         IF Len(headers) = 0
         THEN [hdr |-> <<>>,
               err |-> IF tagOptions.required THEN MissingRequired(tag) ELSE NoErr]
         ELSE [hdr |-> <<headers[1]>>, err |-> NoErr]
    ELSE [hdr |-> <<>>,
          err |-> IF tagOptions.required THEN MissingRequired(tag) ELSE NoErr]

\* decodeMultipartFile from the opened stream on: the data written into valf
\* and the error returned
decodeMultipartFile(valf, f, tagOptions, hdr) ==
    LET rdr == IF tagOptions.base64 THEN Base64Decode(hdr.content)
               ELSE [bytes |-> hdr.content, err |-> NoErr]
    IN
    IF f.type = "[]byte"
    THEN IF rdr.err # NoErr THEN [d |-> valf, err |-> rdr.err]
         ELSE Ok(Data(rdr.bytes, 0))
    ELSE IF f.type = "image.Image"
    THEN IF rdr.err # NoErr
         THEN [d |-> valf, err |-> Error("image: unknown format")]
         ELSE LET img == ImageDecode(rdr.bytes) IN
              IF img.err # NoErr THEN [d |-> valf, err |-> img.err] ELSE Ok(img.d)
    ELSE Ok(valf)

\* decodeMultipartFile without the deferred Close
CloseForgotten(streams, data) == streams

\* defer data.Close(): the streams left open when decodeMultipartFile returns
CloseDeferred(streams, data) == streams \ {data}

----------------------------------------------------------------------------
(* The structs and the requests of the model *)

Field(tag, type, ptr) ==
    [tag |-> tag, type |-> type, ptr |-> ptr, base |-> <<>>, format |-> "", tz |-> ""]

\* a field with a `base` tag
FieldBase(tag, type, b) ==
    [tag |-> tag, type |-> type, ptr |-> FALSE, base |-> b, format |-> "", tz |-> ""]

\* a field with a `tz` tag
FieldTz(tag, type, tz) ==
    [tag |-> tag, type |-> type, ptr |-> FALSE, base |-> <<>>, format |-> "", tz |-> tz]

FieldDescs ==
    { Field(<<>>, "string", FALSE),
      Field(<<"-">>, "string", TRUE),
      Field(<<"-", ",", "required">>, "int", FALSE),
      Field(<<"a">>, "string", FALSE),
      Field(<<"a", ",", "omitempty">>, "string", TRUE),
      Field(<<"a">>, "int", FALSE),
      Field(<<"a">>, "[]int", FALSE),
      Field(<<"a">>, "struct", TRUE),
      Field(<<"a", ",", "required">>, "string", FALSE),
      Field(<<"a", ",", "base64", ",", "required">>, "[]byte", TRUE),
      Field(<<"a">>, "[]byte", FALSE),
      Field(<<"a", ",", "base64">>, "[]byte", FALSE),
      Field(<<"a">>, "image.Image", FALSE),
      Field(<<"a", ",", "base64">>, "image.Image", FALSE),
      Field(<<"a">>, "time.Time", FALSE),
      FieldTz(<<"a">>, "time.Time", "Mars/Olympus"),
      FieldBase(<<"a">>, "uint8", <<"3", "6">>),
      FieldBase(<<"a">>, "int", <<"x">>) }

RawValues == {<<"1">>, <<"x">>, <<RFC3339Stamp>>}

FileParts ==
    { [opens |-> FALSE, content |-> <<"PNG">>],
      [opens |-> TRUE, content |-> <<"PNG">>],
      [opens |-> TRUE, content |-> <<"b64", "PNG">>],
      [opens |-> TRUE, content |-> <<"b64", "t", "x", "t">>] }

\* the lists of at most n copies of an element of S
Lists(S, n) == {<<>>} \cup UNION {{[k \in 1..m |-> x] : x \in S} : m \in 1..n}

Request(contentType, body, formA, formDash, filesA, filesDash) ==
    [contentType |-> contentType,
     body        |-> body,
     Form        |-> (<<"a">> :> formA) @@ (<<"-">> :> formDash),
     multipart   |-> contentType = "multipart/form-data",
     File        |-> (<<"a">> :> filesA) @@ (<<"-">> :> filesDash)]

JSONRequests ==
    { Request("application/json", body, formA, formDash, <<>>, <<>>) :
        body \in {"{}", "full"}, formA \in Lists(RawValues, MaxValues),
        formDash \in {<<>>, <<<<"1">>>>} }

URLEncodedRequests ==
    { Request("application/x-www-form-urlencoded", "form", formA, formDash, <<>>, <<>>) :
        formA \in Lists(RawValues, MaxValues), formDash \in {<<>>, <<<<"1">>>>} }

MultipartRequests ==
    { Request("multipart/form-data", "form", formA, dashData[1], filesA, dashData[2]) :
        formA \in {<<>>, <<<<"1">>>>}, filesA \in Lists(FileParts, MaxValues),
        dashData \in {<< <<>>, <<>> >>,
                      << <<<<"1">>>>, <<[opens |-> TRUE, content |-> <<"PNG">>]>> >>} }

BadRequests ==
    { Request("", "form", <<>>, <<>>, <<>>, <<>>),
      Request("application/json", "malformed", <<>>, <<>>, <<>>, <<>>) }

Requests == JSONRequests \cup URLEncodedRequests \cup MultipartRequests \cup BadRequests

----------------------------------------------------------------------------
(* unmarshal.go: Unmarshal *)

\* the skip test without the "-" sentinel
SkippedEmptyOnly(tag) == tag = <<>>

\* tag == "" || tag == "-"
Skipped(tag) == tag = <<>> \/ tag = <<"-">>

\* mime.ParseMediaType(r.Header.Get("Content-Type"))
ParseMediaType(contentType) ==
    IF contentType = "" THEN [mediaType |-> "", err |-> Error("mime: no media type")]
    ELSE [mediaType |-> contentType, err |-> NoErr]

\* number of pointer fields among the first k that the JSON body sets
RECURSIVE JSONAllocs(_, _)
JSONAllocs(fs, k) ==
    IF k = 0 THEN 0
    ELSE JSONAllocs(fs, k - 1) + (IF fs[k].ptr /\ fs[k].type # "image.Image" THEN 1 ELSE 0)

\* json.NewDecoder(r.Body).Decode(v): the body "full" holds a value for every
\* field that encoding/json can decode into (every type but an interface);
\* a pointer field gets a new pointee
JSONDecode(body, isPtr, fs, d, h) ==
    IF body = "malformed" THEN [dst |-> d, heap |-> h, err |-> Error("json: invalid character")]
    ELSE IF ~isPtr THEN [dst |-> d, heap |-> h, err |-> Error("json: Unmarshal(non-pointer)")]
    ELSE IF body = "full"
    THEN [dst  |-> [k \in DOMAIN d |->
                      IF fs[k].type = "image.Image" THEN d[k]
                      ELSE IF fs[k].ptr THEN Val(h + JSONAllocs(fs, k), jsonData)
                      ELSE Val(0, jsonData)],
          heap |-> h + JSONAllocs(fs, Len(fs)),
          err  |-> NoErr]
    ELSE [dst |-> d, heap |-> h, err |-> NoErr]

Init ==
    /\ fields \in [1..NumFields -> FieldDescs]
    /\ \/ req \in Requests /\ vIsPtr = TRUE
       \/ req \in { Request("application/json", "full", <<>>, <<>>, <<>>, <<>>),
                    Request("application/x-www-form-urlencoded", "form",
                            <<<<"1">>>>, <<>>, <<>>, <<>>) }
          /\ vIsPtr = FALSE
    /\ dst = [k \in 1..NumFields |-> zeroVal]
    /\ pre = dst
    /\ heap = 0
    /\ pc = "start"
    /\ i = 0
    /\ open = {}
    /\ err = NoErr

\* Unmarshal up to the per-field loop: lines 30-52
Begin ==
    /\ pc = "start"
    /\ LET mt == ParseMediaType(req.contentType)
           js == IF mt.mediaType = "application/json"
                 THEN JSONDecode(req.body, vIsPtr, fields, dst, heap)
                 ELSE [dst |-> dst, heap |-> heap, err |-> NoErr]
       IN
       IF mt.err # NoErr
       THEN /\ err' = mt.err /\ pc' = "done" /\ UNCHANGED <<dst, pre, heap, i>>
       ELSE IF js.err # NoErr
       THEN /\ err' = js.err /\ pc' = "done" /\ UNCHANGED <<dst, pre, heap, i>>
       ELSE IF ~vIsPtr
       THEN /\ err' = Error("goform: v must be a pointer") /\ pc' = "done"
            /\ UNCHANGED <<dst, pre, heap, i>>
       ELSE /\ dst' = js.dst /\ pre' = js.dst /\ heap' = js.heap
            /\ pc' = "loop" /\ i' = 1 /\ UNCHANGED err
    /\ UNCHANGED <<fields, req, vIsPtr, open>>

\* the loop going on after a failed field
AfterFieldIgnoringError(e) == [pc |-> "loop", i |-> i + 1]

\* where Unmarshal goes on after a field: `if err != nil { return err }`,
\* else the next field
AfterField(e) == IF e # NoErr THEN [pc |-> "done", i |-> i] ELSE [pc |-> "loop", i |-> i + 1]

\* every field reset before it is bound, pointer or not
AllocateOrReset(f, v, h) == IF f.ptr THEN [v |-> Val(h + 1, zeroData), heap |-> h + 1]
                            ELSE [v |-> zeroVal, heap |-> h]

\* valf.Set(reflect.New(f.Type.Elem())) of a pointer field: lines 65-69
Allocate(f, v, h) == IF f.ptr THEN [v |-> Val(h + 1, zeroData), heap |-> h + 1]
                     ELSE [v |-> v, heap |-> h]

\* valf after a decoder wrote the data d into it (through the pointer, if any)
Written(v, d) == Val(v.addr, d)

\* the data that valf holds
DataOf(v) == Data(v.s, v.n)

\* hdr.Open(): the stream of the first file part under tag
Stream(tag) == [key |-> tag, part |-> 1]

\* one turn of the per-field loop, up to hdr.Open() when the field is bound
\* from a file part: lines 54-94, 228-262
BindField ==
    /\ pc = "loop"
    /\ i <= Len(fields)
    /\ LET f == fields[i]
           t == parseTag(f.tag)
           tag == t.key
           tagOptions == t.flags
           a == Allocate(f, dst[i], heap)
           kind == KindOf(f.type)
           formValues == Lookup(req.Form, tag)
           mp == decodeMultipart(req, tag, tagOptions)
           fv == decodeFormValue(DataOf(a.v), kind, f, formValues[1])
       IN
       IF Skipped(tag)
       THEN /\ i' = i + 1 /\ UNCHANGED <<dst, heap, pc, open, err>>
       ELSE /\ heap' = a.heap
            /\ IF Len(formValues) > 1
               THEN /\ dst' = [dst EXCEPT ![i] = a.v]
                    /\ err' = Error("goform: arrays not supported yet")
                    /\ pc' = "done" /\ UNCHANGED <<i, open>>
               ELSE IF Len(formValues) = 0
               THEN /\ dst' = [dst EXCEPT ![i] = a.v]
                    /\ IF mp.hdr = <<>>
                       THEN /\ err' = mp.err
                            /\ pc' = AfterField(mp.err).pc /\ i' = AfterField(mp.err).i
                            /\ UNCHANGED open
                       ELSE IF mp.hdr[1].opens
                       THEN /\ open' = open \cup {Stream(tag)}
                            /\ pc' = "file" /\ UNCHANGED <<i, err>>
                       ELSE /\ err' = Error("open: no such file")
                            /\ pc' = "done" /\ UNCHANGED <<i, open>>
               ELSE /\ dst' = [dst EXCEPT ![i] = Written(a.v, fv.d)]
                    /\ err' = fv.err
                    /\ pc' = AfterField(fv.err).pc /\ i' = AfterField(fv.err).i
                    /\ UNCHANGED open
    /\ UNCHANGED <<fields, req, vIsPtr, pre>>

\* decodeMultipartFile from the opened stream to its return, and the turn of
\* the loop to its end: lines 262-291, 239-244, 78-85
DecodeFile ==
    /\ pc = "file"
    /\ LET f == fields[i]
           t == parseTag(f.tag)
           hdr == Lookup(req.File, t.key)[1]
           r == decodeMultipartFile(DataOf(dst[i]), f, t.flags, hdr)
       IN
       /\ dst' = [dst EXCEPT ![i] = Written(dst[i], r.d)]
       /\ open' = CloseDeferred(open, Stream(t.key))
       /\ err' = r.err
       /\ pc' = AfterField(r.err).pc /\ i' = AfterField(r.err).i
    /\ UNCHANGED <<fields, req, vIsPtr, pre, heap>>

\* `return nil` after the last field: line 96
Return ==
    /\ pc = "loop"
    /\ i > Len(fields)
    /\ pc' = "done"
    /\ UNCHANGED <<fields, req, vIsPtr, dst, pre, heap, i, open, err>>

Next == Begin \/ BindField \/ DecodeFile \/ Return

Spec == Init /\ [][Next]_vars

----------------------------------------------------------------------------
(* What the claims speak of *)

\* the key and the options of the form tag of field k
KeyOf(k) == parseTag(fields[k].tag).key

OptionsOf(k) == parseTag(fields[k].tag).flags

\* the key is neither empty nor "-": the per-field loop binds the field
Bound(k) == KeyOf(k) # <<>> /\ KeyOf(k) # <<"-">>

FormValuesOf(k) == Lookup(req.Form, KeyOf(k))

FilePartsOf(k) == IF req.multipart THEN Lookup(req.File, KeyOf(k)) ELSE <<>>

\* the request has neither a form value nor a file part under the key
NothingFor(k) == FormValuesOf(k) = <<>> /\ FilePartsOf(k) = <<>>

\* the per-field loop has gone past field k
Passed(k) == pc \in {"loop", "file", "done"} /\ i > k

\* Unmarshal returned an error from the turn of field k
FailedAt(k) == pc = "done" /\ err # NoErr /\ i = k

\* the turn of field k is over
Processed(k) == Passed(k) \/ (pc = "done" /\ i = k)

\* Unmarshal returned nil
Succeeded == pc = "done" /\ err = NoErr

\* the JSON body was decoded and holds a value for field k
JSONSet(k) ==
    /\ req.contentType = "application/json" /\ req.body = "full"
    /\ fields[k].type # "image.Image"
    /\ pc # "start"

\* field k holds the value the JSON body gave it
HoldsJSON(k) ==
    /\ DataOf(dst[k]) = jsonData
    /\ dst[k].addr = pre[k].addr
    /\ fields[k].ptr <=> dst[k].addr # 0

\* field k is a new pointer to a zero value
FreshZeroPointer(k) ==
    /\ dst[k].addr # 0 /\ dst[k].addr # pre[k].addr
    /\ \A j \in 1..NumFields : j # k => dst[j].addr # dst[k].addr
    /\ DataOf(dst[k]) = zeroData

----------------------------------------------------------------------------
(* C1 *)

\* C1, as stated: a field tagged `required` with no form value and no file
\* part under its key makes Unmarshal return "missing required field [key]";
\* the same field without `required` raises no error and holds its zero value
\* afterwards.  (Read of the fields that the loop binds and has processed.)
C1_RequiredOrZero ==
    \A k \in 1..NumFields :
        (Bound(k) /\ NothingFor(k) /\ Processed(k)) =>
            IF OptionsOf(k).required
            THEN FailedAt(k) /\ err = MissingRequired(KeyOf(k))
            ELSE ~FailedAt(k) /\ dst[k] = zeroVal

\* C1, amended: as C1, but the field without `required` is left by the loop
\* as it was before the loop (its zero value, or the value the JSON body gave
\* it), and a pointer field is made a new pointer to a zero value.
C1_RequiredOrUnchanged ==
    \A k \in 1..NumFields :
        (Bound(k) /\ NothingFor(k) /\ Processed(k)) =>
            IF OptionsOf(k).required
            THEN FailedAt(k) /\ err = MissingRequired(KeyOf(k))
            ELSE /\ ~FailedAt(k)
                 /\ IF fields[k].ptr THEN FreshZeroPointer(k)
                    ELSE /\ dst[k] = pre[k]
                         /\ dst[k] = IF JSONSet(k) THEN Val(0, jsonData) ELSE zeroVal

\* a required field failed for want of a value, after a field that is not
\* required was passed for want of a value
C1_Witness ==
    /\ NumFields >= 2
    /\ FailedAt(2) /\ err = MissingRequired(<<"a">>)
    /\ Bound(1) /\ NothingFor(1) /\ ~OptionsOf(1).required /\ ~fields[1].ptr
    /\ dst[1] = zeroVal

----------------------------------------------------------------------------
(* C2 *)

\* C2: after a successful Unmarshal of a JSON request, (a) a field without a
\* form key holds its JSON-decoded value, and (b) a field with a JSON value
\* and a form key that has exactly one form value holds the decoded form
\* value (for a string field, the form value itself) and not the JSON value.
C2_JSONThenForm ==
    Succeeded =>
        \A k \in 1..NumFields :
            JSONSet(k) =>
                /\ ~Bound(k) => HoldsJSON(k)
                /\ (Bound(k) /\ Len(FormValuesOf(k)) = 1) =>
                      /\ DataOf(dst[k]) # jsonData
                      /\ fields[k].type = "string" => dst[k].s = FormValuesOf(k)[1]

----------------------------------------------------------------------------
(* C3 *)

\* C3: when Unmarshal fails on a field whose key has two or more form values,
\* the error is the arrays-not-supported error, and the failing field and
\* every field declared after it hold the value they had before the loop,
\* pointer fields included.
C3_MultiValueLeavesRest ==
    \A k \in 1..NumFields :
        (Bound(k) /\ Len(FormValuesOf(k)) > 1 /\ Processed(k)) =>
            /\ FailedAt(k) /\ err = Error("goform: arrays not supported yet")
            /\ \A j \in k..NumFields : dst[j] = pre[j]

----------------------------------------------------------------------------
(* C4 *)

\* C4: a pointer field that the loop binds, with neither a form value nor a
\* file part in the request, holds the pointer it held before the loop.
C4_LazyAllocation ==
    \A k \in 1..NumFields :
        (fields[k].ptr /\ Bound(k) /\ NothingFor(k)) => dst[k].addr = pre[k].addr

----------------------------------------------------------------------------
(* C5 *)

\* C5: a field whose form tag key is empty or "-" always holds the value it
\* had before the loop, and Unmarshal never returns an error from its turn,
\* whatever the request holds and whatever options the tag carries.
C5_SkippedUntouched ==
    \A k \in 1..NumFields :
        ~Bound(k) => dst[k] = pre[k] /\ ~FailedAt(k)

\* Unmarshal succeeded on a JSON request that has a value under "-", with a
\* field tagged "-,required" and a pointer field tagged "-", both passed
C5_Witness ==
    /\ Succeeded /\ NumFields >= 2
    /\ fields[1].tag = <<"-", ",", "required">>
    /\ fields[2].tag = <<"-">> /\ fields[2].ptr
    /\ req.body = "full" /\ Len(Lookup(req.Form, <<"-">>)) = 1
    /\ HoldsJSON(1) /\ HoldsJSON(2)

----------------------------------------------------------------------------
(* C6 *)

\* C6: the fields are processed in declaration order; no step changes a
\* field declared before the current one (no rollback) or leaves a field
\* declared after the current one different from what it was before the loop;
\* a step that ends in an error ends the bind at the current field, with that
\* error returned, and nothing happens after Unmarshal has returned.
C6_FirstFailureEnds ==
    [][ /\ pc # "done"
        /\ i' \in {i, i + 1}
        /\ \A j \in 1..NumFields : j < i => dst'[j] = dst[j]
        /\ \A j \in 1..NumFields : j > i' => dst'[j] = pre'[j]
        /\ err' # NoErr => pc' = "done" /\ i' = i
        /\ err # NoErr => err' = err ]_vars

\* the second field failed after the first was written
C6_Witness ==
    /\ NumFields >= 2
    /\ FailedAt(2)
    /\ Bound(1) /\ dst[1] # pre[1] /\ dst[1].s = <<"x">>

----------------------------------------------------------------------------
(* C7 *)

\* the types whose kind Unmarshal can bind a form value to
SupportedTypes ==
    {"string", "bool", "int", "int8", "int16", "int32", "int64",
     "uint", "uint8", "uint16", "uint32", "uint64", "float32", "float64",
     "[]byte", "time.Time"}

\* C7: a field with exactly one form value under its key and a type that is
\* not supported makes Unmarshal fail with the invalid-destination-type error.
C7_UnsupportedKindFails ==
    \A k \in 1..NumFields :
        (Bound(k) /\ Len(FormValuesOf(k)) = 1 /\ Processed(k)
         /\ fields[k].type \notin SupportedTypes) =>
            FailedAt(k) /\ err = Error("goform: invalid destination type")

----------------------------------------------------------------------------
(* C8 *)

\* C8: when the key of a field maps to more than one form value, or to no
\* form value and more than one file part, Unmarshal fails at that field.
C8_AtMostOneSource ==
    \A k \in 1..NumFields :
        (Bound(k) /\ Processed(k)
         /\ (Len(FormValuesOf(k)) > 1
             \/ (Len(FormValuesOf(k)) = 0 /\ Len(FilePartsOf(k)) > 1))) =>
            FailedAt(k)

----------------------------------------------------------------------------
(* C9 *)

\* C9, as stated: after a successful Unmarshal of a JSON request, a field
\* with a JSON value and a form key, for which the request has neither a form
\* value nor a file part, no longer holds the value the JSON body gave it.
C9_FormPassOverwrites ==
    Succeeded =>
        \A k \in 1..NumFields :
            (JSONSet(k) /\ Bound(k) /\ NothingFor(k)) => ~HoldsJSON(k)

\* C9, amended: such a field still holds the value the JSON body gave it,
\* unless it is a pointer field, which is made a new pointer to a zero value.
C9_FormPassKeepsJSON ==
    Succeeded =>
        \A k \in 1..NumFields :
            (JSONSet(k) /\ Bound(k) /\ NothingFor(k)) =>
                IF fields[k].ptr THEN FreshZeroPointer(k) ELSE HoldsJSON(k)

\* Unmarshal succeeded on a JSON request with no value under "a", and the
\* first field, a string with the form key "a", holds its JSON value
C9_Witness ==
    /\ Succeeded
    /\ JSONSet(1) /\ Bound(1) /\ NothingFor(1) /\ ~fields[1].ptr
    /\ dst[1] = Val(0, jsonData)

----------------------------------------------------------------------------
(* C10 *)

\* C10: no stream is open once Unmarshal has returned or when the loop turns
\* to the next field; at most one stream is open at a time; a stream is open
\* only for the field in turn, and only if its key has no form value.
C10_StreamsClosed ==
    /\ pc \in {"start", "loop", "done"} => open = {}
    /\ Cardinality(open) <= 1
    /\ open # {} => /\ pc = "file" /\ i \in 1..NumFields
                    /\ open = {Stream(KeyOf(i))}
                    /\ FormValuesOf(i) = <<>>

\* Unmarshal returned the error of a read through the base64 decoder, and no
\* stream is open
C10_Witness ==
    /\ pc = "done" /\ err = Error("illegal base64 data")
    /\ open = {}

====
